---- MODULE Spec2Model ----
(***************************************************************************)
(* PTouch driver (src/src/lib.rs): session establishment                   *)
(* (PTouch::new_with_context) and the raster print sequence                *)
(* (PTouch::print_raw) with its completion poll.                           *)
(*                                                                         *)
(* The USB transport (rusb) and the device are the environment: every      *)
(* transport call returns one of the outcomes the library can produce,     *)
(* chosen nondeterministically.  The command encoders, the status decoder  *)
(* and the compression codec live in modules commands, device and tiff;    *)
(* they are modelled from the written specification.                       *)
(***************************************************************************)
EXTENDS Integers, Sequences, FiniteSets, TLC

\* ------------------------------------------------------------------ bounds
MaxDevices == 2      \* devices on the bus
MaxEndpoints == 2    \* endpoint descriptors of the first interface
MaxLines == 2       \* raster lines of one print job
MaxFrameLen == 2     \* byte length of an encoded command frame
MaxPolls == 14       \* read_status calls followed in one run of print_raw

\* ------------------------------------------------------- program constants
BROTHER_VID == 1273  \* 0x04F9
PollLimit == 10      \* `if i > 10`
StatusLen == 32      \* [u8; 32]
LineLen == 16        \* [u8; 16]
Margin == 14         \* set_margin(14)
DEFAULT_TIMEOUT == 500  \* Duration::from_millis(500)

VARIABLES
    pc,            \* position of the caller: idle, steps of open, ready, steps of print_raw
    devices,       \* context.devices(): the bus, in enumeration order
    index,         \* o.index
    matches,       \* local `matches` (positions on the bus of the matching devices)
    device,        \* local `device` / field _device: <<>> or <<position on the bus>>
    config_desc,   \* local `config_desc`
    cmd_ep,        \* Option<u8>, then field cmd_ep: <<>> is None, <<a>> is Some(a)
    stat_ep,       \* Option<u8>, then field stat_ep
    open_result,   \* what new_with_context returned
    data,          \* print_raw argument `data`, the lines not yet consumed included
    info,          \* print_raw argument `info`
    line,          \* number of lines of `data` the for loop has consumed
    sent,          \* frames handed to write since print_raw was entered, in order
    i,             \* local `i` of the poll loop
    polls,         \* read_status calls since print_raw was entered
    lastPoll,      \* outcome of the latest read_status call
    swallowed,     \* some read_status call of this run failed and was ignored
    print_result,  \* what print_raw returned
    lastWrite,     \* what the latest call of write in the running operation returned
    failed_at,     \* the step of new_with_context that returned the error
    io,            \* the latest call of write, read, status or info: its transfers and result
    handle,        \* the DeviceHandle: "none" before device.open(), "open", "closed" once dropped
    claimed,       \* the handle holds the claim on the interface
    timeout,       \* field timeout: <<>> before the Session is built, <<ms>> after
    steps,         \* calls new_with_context made on the device so far, with their outcomes
    other          \* a second call of new_with_context on the same device: its position,
                   \* handle, claim, calls made and result

vars == <<pc, devices, index, matches, device, config_desc, cmd_ep, stat_ep,
          open_result, data, info, line, sent, i, polls, lastPoll, swallowed,
          print_result, lastWrite, failed_at, io, handle, claimed, timeout, steps,
          other>>

openVars == <<devices, index, matches, device, config_desc, cmd_ep, stat_ep>>
printVars == <<data, info, line, sent, i, polls, lastPoll, swallowed, print_result, io>>
sessVars == <<handle, claimed, timeout>>

\* ------------------------------------------------------------------ errors
\* enum Error; every result carries the same fields so that results compare.
Res(tag) == [tag |-> tag, error1 |-> {}, error2 |-> {}]
NoLanguages == Res("NoLanguages")
Pending == Res("Pending")
Ok == Res("Ok")
Usb == Res("Usb")
InvalidIndex == Res("InvalidIndex")
InvalidEndpoints == Res("InvalidEndpoints")
Timeout == Res("Timeout")
Panic == Res("Panic")
PTouchError(e1, e2) == [tag |-> "PTouch", error1 |-> e1, error2 |-> e2]

\* --------------------------------------------------------------- transport
\* Result<usize, rusb::Error> of write_bulk / read_bulk.
TransferErr == [ok |-> FALSE, n |-> 0]
Transferred(n) == [ok |-> TRUE, n |-> n]
WriteBulkOutcomes(len) == {TransferErr} \cup {Transferred(n) : n \in 0..len}
\* Result<(), rusb::Error> of the other transport calls.
CallOutcomes == {"ok", "err"}

FrameLens == 1..MaxFrameLen

\* Variant of write that takes any non-empty transfer for a complete one.
writeAcceptsPartial(len, out) ==
    IF ~out.ok THEN Usb
    ELSE IF out.n = 0 THEN Timeout
    ELSE Ok
\* PTouch::write: one write_bulk; `?` turns its error into Usb, a count other
\* than data.len() into Timeout.
write(len, out) ==
    IF ~out.ok THEN Usb
    ELSE IF out.n # len THEN Timeout
    ELSE Ok

\* ---------------------------------------------------------- session open
FilterDevice == "pt-p710bt"
OtherDevice == "other"

\* What the bus can hold: a matching printer, a Brother device of another
\* kind, the same product id under another vendor, a device whose descriptor
\* cannot be fetched.
DeviceKinds ==
    { [vendor_id |-> BROTHER_VID, product_id |-> FilterDevice, descriptor_ok |-> TRUE],
      [vendor_id |-> BROTHER_VID, product_id |-> OtherDevice, descriptor_ok |-> TRUE],
      [vendor_id |-> BROTHER_VID + 1, product_id |-> FilterDevice, descriptor_ok |-> TRUE],
      [vendor_id |-> BROTHER_VID, product_id |-> FilterDevice, descriptor_ok |-> FALSE] }

DeviceLists == UNION { [1..n -> DeviceKinds] : n \in 0..MaxDevices }
Indexes == 0..(MaxDevices + 1)

\* The filter_map closure: a device is kept when its descriptor can be
\* fetched and vendor and product id match.
IsMatch(d) ==
    /\ d.descriptor_ok
    /\ d.vendor_id = BROTHER_VID
    /\ d.product_id = FilterDevice

\* devices.iter().filter_map(..).collect(): the bus positions of the matching
\* devices, in enumeration order.
RECURSIVE MatchesFrom(_, _)
MatchesFrom(devs, k) ==
    IF k > Len(devs) THEN <<>>
    ELSE (IF IsMatch(devs[k]) THEN <<k>> ELSE <<>>) \o MatchesFrom(devs, k + 1)
Matches(devs) == MatchesFrom(devs, 1)

\* `matches.len() < o.index || matches.len() == 0`
IndexInvalid(m, idx) == Len(m) < idx \/ Len(m) = 0

\* Vec::remove(index): panics when index >= len, else takes the element out.
RemovePanics(m, idx) == idx >= Len(m)
RemoveAt(m, idx) == [k \in 1..(Len(m) - 1) |-> IF k <= idx THEN m[k] ELSE m[k + 1]]

\* Endpoint descriptors of the first interface, over all its alternate
\* settings in order (the two nested for loops visit them in that order).
\* Addresses are distinct: the endpoint at position k has address k.
TransferTypes == {"Bulk", "Interrupt"}
Directions == {"In", "Out"}
EndpointLists ==
    UNION { { [k \in 1..n |-> [transfer_type |-> f[k][1], direction |-> f[k][2], address |-> k]]
              : f \in [1..n -> TransferTypes \X Directions] }
            : n \in 0..MaxEndpoints }
\* A second interface, which open never looks at.
OtherInterface ==
    << [transfer_type |-> "Bulk", direction |-> "In", address |-> MaxEndpoints + 1],
       [transfer_type |-> "Bulk", direction |-> "Out", address |-> MaxEndpoints + 2] >>
\* A configuration descriptor is the sequence of its interfaces.
ConfigDescs ==
    {<<>>} \cup { <<e>> : e \in EndpointLists } \cup { <<e, OtherInterface>> : e \in EndpointLists }

\* Variant of Scan that matches on the direction alone.
RECURSIVE ScanAnyType(_, _, _, _)
ScanAnyType(eps, k, cmd, stat) ==
    IF k > Len(eps) THEN [cmd |-> cmd, stat |-> stat]
    ELSE IF eps[k].direction = "In"
         THEN ScanAnyType(eps, k + 1, cmd, <<eps[k].address>>)
    ELSE ScanAnyType(eps, k + 1, <<eps[k].address>>, stat)
\* The match on (transfer_type, direction) in the endpoint loop: each bulk
\* IN endpoint overwrites stat_ep, each bulk OUT endpoint overwrites cmd_ep.
RECURSIVE Scan(_, _, _, _)
Scan(eps, k, cmd, stat) ==
    IF k > Len(eps) THEN [cmd |-> cmd, stat |-> stat]
    ELSE IF eps[k].transfer_type = "Bulk" /\ eps[k].direction = "In"
         THEN Scan(eps, k + 1, cmd, <<eps[k].address>>)
    ELSE IF eps[k].transfer_type = "Bulk" /\ eps[k].direction = "Out"
         THEN Scan(eps, k + 1, <<eps[k].address>>, stat)
    ELSE Scan(eps, k + 1, cmd, stat)

\* One entry of `steps`.
Call(call, out) == [call |-> call, out |-> out]

\* Variant of OpenFails in which the handle outlives the failed call.
OpenFailsLeaking(err) ==
    /\ pc' = "failed"
    /\ failed_at' = pc
    /\ open_result' = err
    /\ UNCHANGED sessVars
\* new_with_context returns an error: its locals are dropped, and dropping the
\* DeviceHandle (if device.open() had returned one) releases the interfaces it
\* claimed and closes it.
OpenFails(err) ==
    /\ pc' = "failed"
    /\ failed_at' = pc
    /\ open_result' = err
    /\ handle' = IF handle = "open" THEN "closed" ELSE handle
    /\ claimed' = FALSE
    /\ timeout' = <<>>

\* Enumerate, filter, check the index, take the device out of `matches`.
NewWithContext ==
    /\ pc = "idle"
    /\ UNCHANGED <<config_desc, cmd_ep, stat_ep, printVars, lastWrite, other, steps>>
    /\ \E idx \in Indexes :
        /\ index' = idx
        /\ \/ \* context.devices()? fails
              /\ devices' = <<>>
              /\ OpenFails(Usb)
              /\ UNCHANGED <<matches, device>>
           \/ \E devs \in DeviceLists :
                LET m == Matches(devs) IN
                /\ devices' = devs
                /\ IF IndexInvalid(m, idx)
                   THEN /\ OpenFails(InvalidIndex)
                        /\ matches' = m
                        /\ UNCHANGED device
                   ELSE IF RemovePanics(m, idx)
                   THEN /\ pc' = "aborted"
                        /\ open_result' = Panic
                        /\ matches' = m
                        /\ UNCHANGED <<device, failed_at, sessVars>>
                   ELSE /\ pc' = "open_handle"
                        /\ device' = <<m[idx + 1]>>
                        /\ matches' = RemoveAt(m, idx)
                        /\ UNCHANGED <<open_result, failed_at, sessVars>>

\* A transport call guarded by `?` or by an explicit `return Err(e.into())`.
TransportStep(from, call, to) ==
    /\ pc = from
    /\ \E r \in CallOutcomes :
         /\ steps' = Append(steps, Call(call, r))
         /\ IF r = "ok" THEN pc' = to /\ UNCHANGED <<open_result, failed_at, sessVars>>
            ELSE OpenFails(Usb)

\* device.open()
OpenHandle ==
    /\ pc = "open_handle"
    /\ UNCHANGED <<openVars, printVars, lastWrite, other>>
    /\ \E r \in CallOutcomes :
         /\ steps' = Append(steps, Call("open", r))
         /\ IF r = "ok"
            THEN /\ pc' = "reset"
                 /\ handle' = "open"
                 /\ UNCHANGED <<open_result, failed_at, claimed, timeout>>
            ELSE OpenFails(Usb)

\* handle.reset()
Reset ==
    /\ TransportStep("reset", "reset", "config_descriptor")
    /\ UNCHANGED <<openVars, printVars, lastWrite, other>>

\* device.config_descriptor(0)
ConfigDescriptor ==
    /\ pc = "config_descriptor"
    /\ UNCHANGED <<devices, index, matches, device, cmd_ep, stat_ep, printVars, lastWrite, other>>
    /\ \/ /\ OpenFails(Usb)
          /\ steps' = Append(steps, Call("config_descriptor", "err"))
          /\ UNCHANGED config_desc
       \/ \E c \in ConfigDescs :
            /\ config_desc' = c
            /\ steps' = Append(steps, Call("config_descriptor", "ok"))
            /\ pc' = "locate_endpoints"
            /\ UNCHANGED <<open_result, failed_at, sessVars>>

\* Variant of EndpointsFound that is content with one of the two endpoints.
EndpointsFoundEither(found) == found.cmd # <<>> \/ found.stat # <<>>
\* match (cmd_ep, stat_ep) { (Some(cmd), Some(stat)) => .. }
EndpointsFound(found) == found.cmd # <<>> /\ found.stat # <<>>

\* interfaces().next(), the endpoint loop, the match on (cmd_ep, stat_ep)
LocateEndpoints ==
    /\ pc = "locate_endpoints"
    /\ UNCHANGED <<devices, index, matches, device, config_desc, printVars, lastWrite, other>>
    /\ IF config_desc = <<>>
       THEN /\ OpenFails(InvalidEndpoints)
            /\ steps' = Append(steps, Call("locate_endpoints", "err"))
            /\ UNCHANGED <<cmd_ep, stat_ep>>
       ELSE LET found == Scan(config_desc[1], 1, <<>>, <<>>) IN
            /\ cmd_ep' = found.cmd
            /\ stat_ep' = found.stat
            /\ IF EndpointsFound(found)
               THEN /\ pc' = "kernel_driver"
                    /\ steps' = Append(steps, Call("locate_endpoints", "ok"))
                    /\ UNCHANGED <<open_result, failed_at, sessVars>>
               ELSE /\ OpenFails(InvalidEndpoints)
                    /\ steps' = Append(steps, Call("locate_endpoints", "err"))

\* Variant of AfterKernelDriver that detaches whatever the answer was.
AfterKernelDriverAlways(active) == "detach"
\* match handle.kernel_driver_active(..)? { true => detach, false => {} }
AfterKernelDriver(active) == IF active THEN "detach" ELSE "claim"

\* handle.kernel_driver_active(..)?
KernelDriverActive ==
    /\ pc = "kernel_driver"
    /\ UNCHANGED <<openVars, printVars, lastWrite, other>>
    /\ \/ /\ OpenFails(Usb)
          /\ steps' = Append(steps, Call("kernel_driver_active", "err"))
       \/ \E active \in BOOLEAN :
            /\ pc' = AfterKernelDriver(active)
            /\ steps' = Append(steps, Call("kernel_driver_active",
                                           IF active THEN "true" ELSE "false"))
            /\ UNCHANGED <<open_result, failed_at, sessVars>>

\* handle.detach_kernel_driver(..)?
DetachKernelDriver ==
    /\ TransportStep("detach", "detach_kernel_driver", "claim")
    /\ UNCHANGED <<openVars, printVars, lastWrite, other>>

\* What claim_interface can answer: the platform refuses the claim while
\* another handle holds it.
ClaimOutcomes(held) == IF held THEN {"err"} ELSE CallOutcomes

\* Variant of ClaimSucceeded that drops the `?` of claim_interface.
ClaimIgnored(r) == TRUE
\* The `?` of handle.claim_interface(..)?
ClaimSucceeded(r) == r = "ok"

\* handle.claim_interface(..)?, then Self { .., timeout: DEFAULT_TIMEOUT }
ClaimInterface ==
    /\ pc = "claim"
    /\ UNCHANGED <<openVars, printVars, lastWrite, other>>
    /\ \E r \in ClaimOutcomes(other.claimed) :
         /\ steps' = Append(steps, Call("claim_interface", r))
         /\ IF ClaimSucceeded(r)
            THEN /\ pc' = "invalidate"
                 /\ claimed' = (r = "ok")
                 /\ timeout' = <<DEFAULT_TIMEOUT>>
                 /\ UNCHANGED <<open_result, failed_at, handle>>
            ELSE OpenFails(Usb)

\* ------------------------------------------------------------- raster data
\* Sample raster lines: `run` zero bytes, then bytes that alternate between
\* 1 and 2 (no two neighbours equal).
LineOf(run) == [k \in 1..LineLen |-> IF k <= run THEN 0 ELSE 1 + (k % 2)]
RasterLines == { LineOf(run) : run \in {2, LineLen} }
DataInputs == UNION { [1..n -> RasterLines] : n \in 0..MaxLines }
PrintInfos == {"tze12", "tze24"}

\* tiff::compress, PackBits: a maximal run of n >= 2 equal bytes becomes the
\* control byte (1 - n) in two's complement and the byte; a maximal stretch
\* of bytes outside such runs becomes the control byte (n - 1) and the bytes.
RECURSIVE RunLength(_, _)
RunLength(l, k) ==
    IF k < Len(l) /\ l[k + 1] = l[k] THEN 1 + RunLength(l, k + 1) ELSE 1
RECURSIVE LiteralLength(_, _)
LiteralLength(l, k) ==
    IF k > Len(l) \/ RunLength(l, k) >= 2 THEN 0 ELSE 1 + LiteralLength(l, k + 1)
RECURSIVE Pack(_, _)
Pack(l, k) ==
    IF k > Len(l) THEN <<>>
    ELSE IF RunLength(l, k) >= 2
         THEN <<257 - RunLength(l, k), l[k]>> \o Pack(l, k + RunLength(l, k))
    ELSE <<LiteralLength(l, k) - 1>> \o SubSeq(l, k, k + LiteralLength(l, k) - 1)
         \o Pack(l, k + LiteralLength(l, k))
compress(l) == Pack(l, 1)

\* ----------------------------------------------------------------- frames
\* A command frame as the encoders of module commands build it: the command,
\* its argument and, for raster_transfer, the compressed line.
Frame(cmd, arg, payload) == [cmd |-> cmd, arg |-> arg, payload |-> payload]
invalidate == Frame("invalidate", "", <<>>)
init == Frame("init", "", <<>>)
switch_mode(mode) == Frame("switch_mode", mode, <<>>)
set_status_notify(on) == Frame("set_status_notify", on, <<>>)
set_print_info(pi) == Frame("set_print_info", pi, <<>>)
set_various_mode(m) == Frame("set_various_mode", m, <<>>)
set_advanced_mode(m) == Frame("set_advanced_mode", m, <<>>)
set_margin(dots) == Frame("set_margin", "", <<dots>>)
set_compression_mode(m) == Frame("set_compression_mode", m, <<>>)
raster_transfer(l) == Frame("raster_transfer", "", l)
print_and_feed == Frame("print_and_feed", "", <<>>)
status_req == Frame("status_req", "", <<>>)

\* What one command can return: the frame goes through write once.
CommandResults ==
    UNION { { write(len, out) : out \in WriteBulkOutcomes(len) } : len \in FrameLens }

\* ----------------------------------------------------------------- status
StatusTypes == {"Reply", "Completed", "PhaseChange", "Notification"}
Error1Bits == {"NO_MEDIA"}
Error2Bits == {"COVER_OPEN"}
StatusFrames ==
    [status_type : StatusTypes, error1 : SUBSET Error1Bits, error2 : SUBSET Error2Bits]
NoPoll == [status_type |-> "NoPoll", error1 |-> {}, error2 |-> {}]
FailedPoll == [status_type |-> "FailedPoll", error1 |-> {}, error2 |-> {}]

\* No call of write, read, status or info was made since the latest print_raw.
\* outs and ins are the outcomes of the bulk OUT and bulk IN transfers of the
\* call, status the Status it returned, langs the language list the device
\* reported, reads the string descriptors read (which one, in which language).
NoIo ==
    [op |-> "none", len |-> 0, outs |-> <<>>, ins |-> <<>>, result |-> Pending,
     status |-> NoPoll, langs |-> <<>>, reads |-> <<>>]

ReadBulkOutcomes == {TransferErr} \cup { Transferred(n) : n \in {0, StatusLen - 1, StatusLen} }

\* Variant of read that takes any non-empty transfer for a frame.
readAcceptsShort(out) ==
    IF ~out.ok THEN Usb
    ELSE IF out.n = 0 THEN Timeout
    ELSE Ok
\* PTouch::read: one read_bulk into a 32 byte buffer; anything but 32 bytes
\* is a Timeout.
read(out) ==
    IF ~out.ok THEN Usb
    ELSE IF out.n # StatusLen THEN Timeout
    ELSE Ok

\* Commands::read_status: status request, read, decode.  The result is the
\* decoded frame, or FailedPoll when the request or the read failed.
read_status(req, out, frame) ==
    IF req # Ok THEN FailedPoll
    ELSE IF read(out) # Ok THEN FailedPoll
    ELSE frame
\* What the read and the decoding can yield once the request is written.
ReadResults ==
    { read_status(Ok, out, frame) : <<out, frame>> \in ReadBulkOutcomes \X StatusFrames }

\* ------------------------------------------------- handshake of session open
Handshake(from, frame, to) ==
    /\ pc = from
    /\ sent' = Append(sent, frame)
    /\ UNCHANGED <<data, info, line, i, polls, lastPoll, swallowed, print_result, io, other>>
    /\ \E r \in CommandResults :
         /\ lastWrite' = r
         /\ steps' = Append(steps, Call(frame.cmd, IF r = Ok THEN "ok" ELSE "err"))
         /\ IF r = Ok THEN pc' = to /\ UNCHANGED <<open_result, failed_at, sessVars>>
            ELSE OpenFails(r)

\* s.invalidate()?
Invalidate ==
    /\ Handshake("invalidate", invalidate, "init")
    /\ UNCHANGED openVars

\* s.init()?
InitPrinter ==
    /\ Handshake("init", init, "return")
    /\ UNCHANGED openVars

\* Ok(s): the locals of new_with_context go out of scope, the Session keeps
\* the device and the two endpoint addresses.
ReturnSession ==
    /\ pc = "return"
    /\ pc' = "ready"
    /\ open_result' = Ok
    /\ devices' = <<>>
    /\ matches' = <<>>
    /\ config_desc' = <<>>
    /\ index' = 0
    /\ steps' = <<>>
    /\ UNCHANGED <<device, cmd_ep, stat_ep, printVars, lastWrite, other, failed_at, sessVars>>

\* ---------------------------------------------------------------- print_raw
\* Variant of PrintReturns that gives the handle up when the call failed.
PrintReturnsClosing(r) ==
    /\ pc' = "ready"
    /\ print_result' = r
    /\ IF r = Ok THEN UNCHANGED sessVars
       ELSE handle' = "closed" /\ claimed' = FALSE /\ UNCHANGED timeout
\* print_raw returns r; it borrowed the Session (&mut self) and wrote to none
\* of its fields.
PrintReturns(r) ==
    /\ pc' = "ready"
    /\ print_result' = r
    /\ UNCHANGED sessVars

\* The caller enters print_raw(data, info).
PrintRaw ==
    /\ pc = "ready"
    /\ pc' = "switch_mode"
    /\ \E d \in DataInputs, pi \in PrintInfos :
         /\ data' = d
         /\ info' = pi
    /\ line' = 0
    /\ sent' = <<>>
    /\ i' = 0
    /\ polls' = 0
    /\ lastPoll' = NoPoll
    /\ swallowed' = FALSE
    /\ print_result' = Pending
    /\ lastWrite' = Pending
    /\ io' = NoIo
    /\ UNCHANGED <<openVars, open_result, failed_at, sessVars, steps, other>>

\* Variant of Command that drops the `?`: the error is ignored.
CommandGoesOn(from, frame, to) ==
    /\ pc = from
    /\ sent' = Append(sent, frame)
    /\ UNCHANGED <<openVars, open_result, failed_at, data, info, i, polls, lastPoll, swallowed, io,
                   steps, sessVars, other>>
    /\ \E r \in CommandResults :
         /\ lastWrite' = r
         /\ pc' = to
         /\ UNCHANGED print_result
\* One `self.<command>(..)?` of print_raw.
Command(from, frame, to) ==
    /\ pc = from
    /\ sent' = Append(sent, frame)
    /\ UNCHANGED <<openVars, open_result, failed_at, data, info, i, polls, lastPoll, swallowed, io,
                   steps, other>>
    /\ \E r \in CommandResults :
         /\ lastWrite' = r
         /\ IF r = Ok THEN pc' = to /\ UNCHANGED <<print_result, sessVars>>
            ELSE PrintReturns(r)

\* Variant of SwitchMode with set_status_notify left out of the sequence.
SwitchModeThenPrintInfo ==
    /\ Command("switch_mode", switch_mode("Raster"), "set_print_info")
    /\ UNCHANGED line
SwitchMode ==
    /\ Command("switch_mode", switch_mode("Raster"), "set_status_notify")
    /\ UNCHANGED line
SetStatusNotify ==
    /\ Command("set_status_notify", set_status_notify("true"), "set_print_info")
    /\ UNCHANGED line
SetPrintInfo ==
    /\ Command("set_print_info", set_print_info(info), "set_various_mode")
    /\ UNCHANGED line
SetVariousMode ==
    /\ Command("set_various_mode", set_various_mode("AUTO_CUT"), "set_advanced_mode")
    /\ UNCHANGED line
SetAdvancedMode ==
    /\ Command("set_advanced_mode", set_advanced_mode("NO_CHAIN"), "set_margin")
    /\ UNCHANGED line
SetMargin ==
    /\ Command("set_margin", set_margin(Margin), "set_compression_mode")
    /\ UNCHANGED line
\* Variant of SetCompressionMode that goes on with a status check (the
\* commented-out `self.status()?`) before any raster data.
SetCompressionModeThenStatus ==
    /\ Command("set_compression_mode", set_compression_mode("Tiff"), "poll")
    /\ UNCHANGED line
SetCompressionMode ==
    /\ Command("set_compression_mode", set_compression_mode("Tiff"), "raster")
    /\ UNCHANGED line

\* Variant of NextLine that walks the lines from the last to the first.
NextLineFromEnd(d, n) == d[Len(d) - n]
\* `for line in data`: the element the iterator yields after n elements.
NextLine(d, n) == d[n + 1]
\* Variant of DataDone that stops one line early.
DataDoneEarly(d, n) == n + 1 >= Len(d)
\* The iterator is exhausted.
DataDone(d, n) == n >= Len(d)

\* One pass of the raster loop: compress the line, raster_transfer(&l)?
RasterTransfer ==
    /\ ~DataDone(data, line)
    /\ Command("raster", raster_transfer(compress(NextLine(data, line))), "raster")
    /\ line' = line + 1

\* self.print_and_feed()?, then `let mut i = 0`
PrintAndFeed ==
    /\ DataDone(data, line)
    /\ Command("raster", print_and_feed, "poll")
    /\ UNCHANGED line

\* Variant of HasError that looks at error1 alone.
HasError1(s) == s.error1 # {}
\* `!s.error1.is_empty() || !s.error2.is_empty()`
HasError(s) == s.error1 # {} \/ s.error2 # {}
\* Variant of IsCompleted that takes a phase change for the end of the print.
IsCompletedOrPhaseChange(s) == s.status_type \in {"Completed", "PhaseChange"}
\* `s.status_type == DeviceStatus::Completed`
IsCompleted(s) == s.status_type = "Completed"
\* Variant of PollExhausted with `>=` for `>`.
PollExhaustedAtLimit(n) == n >= PollLimit
\* `i > 10`
PollExhausted(n) == n > PollLimit

\* Variant of PollDecision with `self.read_status(..)?`: a failed read is
\* returned to the caller.
PollDecisionPropagates(s, n) ==
    IF s = FailedPoll
    THEN Usb
    ELSE IF HasError(s)
    THEN PTouchError(s.error1, s.error2)
    ELSE IF IsCompleted(s)
    THEN Ok
    ELSE IF PollExhausted(n)
    THEN Timeout
    ELSE Pending

\* The body of the poll loop after read_status returned s: the error to
\* return, Ok on `break`, Pending when the loop goes round again.  A failed
\* read_status does not match `if let Ok(s)` and falls through to the bound.
PollDecision(s, n) ==
    IF s # FailedPoll /\ HasError(s)
    THEN PTouchError(s.error1, s.error2)
    ELSE IF s # FailedPoll /\ IsCompleted(s)
    THEN Ok
    ELSE IF PollExhausted(n)
    THEN Timeout
    ELSE Pending

\* What read_status returns when its status_req write returned req.
PollResults(req) == IF req = Ok THEN ReadResults ELSE {FailedPoll}

\* Variant of Poll that leaves out `i += 1`.
PollWithoutCount ==
    /\ pc = "poll"
    /\ polls < MaxPolls
    /\ sent' = Append(sent, status_req)
    /\ polls' = polls + 1
    /\ UNCHANGED <<openVars, open_result, failed_at, data, info, line, io, steps, other>>
    /\ \E req \in CommandResults : \E s \in PollResults(req) :
         LET r == PollDecision(s, i)
         IN /\ lastWrite' = req
            /\ lastPoll' = s
            /\ swallowed' = (swallowed \/ s = FailedPoll)
            /\ IF r = Pending
               THEN /\ i' = i
                    /\ pc' = "poll"
                    /\ UNCHANGED <<print_result, sessVars>>
               ELSE /\ PrintReturns(r)
                    /\ UNCHANGED i
\* One pass of the poll loop.
Poll ==
    /\ pc = "poll"
    /\ polls < MaxPolls
    /\ sent' = Append(sent, status_req)
    /\ polls' = polls + 1
    /\ UNCHANGED <<openVars, open_result, failed_at, data, info, line, io, steps, other>>
    /\ \E req \in CommandResults : \E s \in PollResults(req) :
         LET r == PollDecision(s, i)
         IN /\ lastWrite' = req
            /\ lastPoll' = s
            /\ swallowed' = (swallowed \/ s = FailedPoll)
            /\ IF r = Pending
               THEN /\ i' = i + 1
                    /\ pc' = "poll"
                    /\ UNCHANGED <<print_result, sessVars>>
               ELSE /\ PrintReturns(r)
                    /\ UNCHANGED i

\* ------------------------------------------- write, read, status on a Session
\* Another operation is called: what print_raw left behind is forgotten.
ForgetPrint ==
    /\ data' = <<>>
    /\ info' = "tze12"
    /\ line' = 0
    /\ sent' = <<>>
    /\ i' = 0
    /\ polls' = 0
    /\ lastPoll' = NoPoll
    /\ swallowed' = FALSE
    /\ print_result' = Pending
    /\ lastWrite' = Pending

\* The operation returns; the Session is borrowed, not consumed.
IoReturns ==
    /\ pc' = "ready"
    /\ UNCHANGED <<openVars, open_result, failed_at, sessVars, steps, other>>

\* PTouch::write(data, timeout) with data.len() = len.
Write ==
    /\ pc = "ready"
    /\ ForgetPrint
    /\ IoReturns
    /\ \E len \in FrameLens : \E out \in WriteBulkOutcomes(len) :
         io' = [NoIo EXCEPT !.op = "write", !.len = len, !.outs = <<out>>,
                            !.result = write(len, out)]

\* PTouch::read(timeout); the status field is the buffer returned, as the
\* decoder would read it.
Read ==
    /\ pc = "ready"
    /\ ForgetPrint
    /\ IoReturns
    /\ \E out \in ReadBulkOutcomes :
         LET r == [NoIo EXCEPT !.op = "read", !.ins = <<out>>, !.result = read(out)] IN
         IF read(out) # Ok
         THEN io' = r
         ELSE \E frame \in StatusFrames : io' = [r EXCEPT !.status = frame]

\* PTouch::status(): self.status_req()?, self.read(self.timeout)?, Status::from(d)
Status ==
    /\ pc = "ready"
    /\ ForgetPrint
    /\ IoReturns
    /\ \E len \in FrameLens : \E wout \in WriteBulkOutcomes(len) :
         LET w == [NoIo EXCEPT !.op = "status", !.len = len, !.outs = <<wout>>,
                               !.result = write(len, wout)] IN
         IF write(len, wout) # Ok
         THEN io' = w
         ELSE \E rout \in ReadBulkOutcomes :
                LET r == [w EXCEPT !.ins = <<rout>>, !.result = read(rout)] IN
                IF read(rout) # Ok
                THEN io' = r
                ELSE \E frame \in StatusFrames : io' = [r EXCEPT !.status = frame]

\* ---------------------------------------------------------------------- info
\* What read_languages can return: an error, or a list of language ids.
LanguageLists == {<<>>, <<1>>, <<2, 1>>}
ReadLanguagesOutcomes ==
    {[ok |-> FALSE, langs |-> <<>>]} \cup {[ok |-> TRUE, langs |-> l] : l \in LanguageLists}
StringReads == <<"manufacturer", "product", "serial">>

\* Variant of language that takes the last language of the list.
languageLast(languages) == languages[Len(languages)]
\* let language = languages[0]
language(languages) == languages[1]

\* The string reads info makes with the answers strOk: each is guarded by `?`,
\* so they stop at the first one that fails.
StringsRead(strOk) ==
    IF \E k \in 1..3 : ~strOk[k]
    THEN CHOOSE k \in 1..3 : ~strOk[k] /\ \A j \in 1..(k - 1) : strOk[j]
    ELSE 3

\* PTouch::info as a function of what the handle answers: lo to
\* read_languages, cfgOk to active_configuration, strOk to the string reads.
InfoOf(lo, cfgOk, strOk) ==
    LET l == [NoIo EXCEPT !.op = "info", !.langs = lo.langs,
                          !.reads = <<[call |-> "read_languages", lang |-> 0, ok |-> lo.ok]>>]
        c == [l EXCEPT !.reads = Append(@, [call |-> "active_configuration", lang |-> 0,
                                            ok |-> cfgOk])]
    IN IF ~lo.ok THEN [l EXCEPT !.result = Usb]
       ELSE IF ~cfgOk THEN [c EXCEPT !.result = Usb]
       ELSE IF Len(lo.langs) = 0 THEN [c EXCEPT !.result = NoLanguages]
       ELSE [c EXCEPT !.reads = @ \o [k \in 1..StringsRead(strOk) |->
                                        [call |-> StringReads[k], lang |-> language(lo.langs),
                                         ok |-> strOk[k]]],
                      !.result = IF \A k \in 1..3 : strOk[k] THEN Ok ELSE Usb]

\* PTouch::info()
Info ==
    /\ pc = "ready"
    /\ ForgetPrint
    /\ IoReturns
    /\ \E lo \in ReadLanguagesOutcomes, cfgOk \in BOOLEAN, strOk \in [1..3 -> BOOLEAN] :
         io' = InfoOf(lo, cfgOk, strOk)

\* ------------------------------------- a second new_with_context, same device
\* The second call has not been made.
NoOther == [pc |-> "idle", handle |-> "none", claimed |-> FALSE, steps |-> <<>>,
            result |-> Pending]
\* All variables but `other`.
firstVars == <<pc, openVars, open_result, printVars, lastWrite, failed_at, sessVars, steps>>

\* The second call returns an error; its handle, if it had one, is dropped.
OtherFails(call, err) ==
    other' = [pc |-> "failed",
              handle |-> IF other.handle = "open" THEN "closed" ELSE other.handle,
              claimed |-> FALSE,
              steps |-> Append(other.steps, Call(call, "err")),
              result |-> err]
\* The second call goes on after `call` answered `out`.
OtherGoes(call, out, to) ==
    other' = [other EXCEPT !.pc = to, !.steps = Append(@, Call(call, out))]
OtherStep(from, call, to) ==
    /\ other.pc = from
    /\ UNCHANGED firstVars
    /\ \E r \in CallOutcomes :
         IF r = "ok" THEN OtherGoes(call, "ok", to) ELSE OtherFails(call, Usb)

\* device.open()
SecondOpenHandle ==
    /\ other.pc = "open_handle"
    /\ UNCHANGED firstVars
    /\ \E r \in CallOutcomes :
         IF r = "ok"
         THEN other' = [other EXCEPT !.pc = "reset", !.handle = "open",
                                     !.steps = Append(@, Call("open", "ok"))]
         ELSE OtherFails("open", Usb)
\* handle.reset()
SecondReset == OtherStep("reset", "reset", "config_descriptor")
\* device.config_descriptor(0) and the endpoint search: the device is the
\* one the Session was opened on, so both endpoints are found.
SecondConfigDescriptor == OtherStep("config_descriptor", "config_descriptor", "kernel_driver")
\* handle.kernel_driver_active(..)?
SecondKernelDriverActive ==
    /\ other.pc = "kernel_driver"
    /\ UNCHANGED firstVars
    /\ \/ OtherFails("kernel_driver_active", Usb)
       \/ \E active \in BOOLEAN :
            OtherGoes("kernel_driver_active", IF active THEN "true" ELSE "false",
                      AfterKernelDriver(active))
\* handle.detach_kernel_driver(..)?
SecondDetachKernelDriver == OtherStep("detach", "detach_kernel_driver", "claim")
\* handle.claim_interface(..)?
SecondClaimInterface ==
    /\ other.pc = "claim"
    /\ UNCHANGED firstVars
    /\ \E r \in ClaimOutcomes(claimed) :
         IF ClaimSucceeded(r)
         THEN other' = [other EXCEPT !.pc = "invalidate", !.claimed = (r = "ok"),
                                     !.steps = Append(@, Call("claim_interface", r))]
         ELSE OtherFails("claim_interface", Usb)
\* s.invalidate()?, s.init()?: one bulk OUT transfer each
SecondHandshake(from, frame, to) ==
    /\ other.pc = from
    /\ UNCHANGED firstVars
    /\ \E r \in CommandResults :
         IF r = Ok THEN OtherGoes(frame.cmd, "ok", to) ELSE OtherFails(frame.cmd, r)
SecondInvalidate == SecondHandshake("invalidate", invalidate, "init")
SecondInitPrinter == SecondHandshake("init", init, "return")
\* Ok(s)
SecondReturnSession ==
    /\ other.pc = "return"
    /\ UNCHANGED firstVars
    /\ other' = [other EXCEPT !.pc = "ready", !.result = Ok]

\* The owner of the Session lets it go: the DeviceHandle is dropped, which
\* releases the interface and closes the handle.
DropSession ==
    /\ pc = "ready"
    /\ pc' = "dropped"
    /\ handle' = "closed"
    /\ claimed' = FALSE
    /\ UNCHANGED <<openVars, open_result, printVars, lastWrite, failed_at, timeout, steps, other>>

\* ------------------------------------------------------------ specification
Init ==
    /\ pc = "idle"
    /\ devices = <<>>
    /\ index = 0
    /\ matches = <<>>
    /\ device = <<>>
    /\ config_desc = <<>>
    /\ cmd_ep = <<>>
    /\ stat_ep = <<>>
    /\ open_result = Pending
    /\ data = <<>>
    /\ info = "tze12"
    /\ line = 0
    /\ sent = <<>>
    /\ i = 0
    /\ polls = 0
    /\ lastPoll = NoPoll
    /\ swallowed = FALSE
    /\ print_result = Pending
    /\ lastWrite = Pending
    /\ failed_at = ""
    /\ io = NoIo
    /\ handle = "none"
    /\ claimed = FALSE
    /\ timeout = <<>>
    /\ steps = <<>>
    /\ other = NoOther

Next ==
    \/ NewWithContext
    \/ OpenHandle
    \/ Reset
    \/ ConfigDescriptor
    \/ LocateEndpoints
    \/ KernelDriverActive
    \/ DetachKernelDriver
    \/ ClaimInterface
    \/ Invalidate
    \/ InitPrinter
    \/ ReturnSession
    \/ PrintRaw
    \/ SwitchMode
    \/ SetStatusNotify
    \/ SetPrintInfo
    \/ SetVariousMode
    \/ SetAdvancedMode
    \/ SetMargin
    \/ SetCompressionMode
    \/ RasterTransfer
    \/ PrintAndFeed
    \/ Poll

Spec == Init /\ [][Next]_vars

\* The operations on an open Session, from the state new_with_context leaves:
\* the Session of the first matching device, with the two bulk endpoints of
\* its interface in either order.
InitSession ==
    /\ pc = "ready"
    /\ devices = <<>>
    /\ index = 0
    /\ matches = <<>>
    /\ device = <<1>>
    /\ config_desc = <<>>
    /\ \E a \in 1..2 : cmd_ep = <<a>> /\ stat_ep = <<3 - a>>
    /\ open_result = Ok
    /\ data = <<>>
    /\ info = "tze12"
    /\ line = 0
    /\ sent = <<invalidate, init>>
    /\ i = 0
    /\ polls = 0
    /\ lastPoll = NoPoll
    /\ swallowed = FALSE
    /\ print_result = Pending
    /\ lastWrite = Ok
    /\ failed_at = ""
    /\ io = NoIo
    /\ handle = "open"
    /\ claimed = TRUE
    /\ timeout = <<DEFAULT_TIMEOUT>>
    /\ steps = <<>>
    /\ other = NoOther

NextSession ==
    \/ Write
    \/ Read
    \/ Status
    \/ Info
    \/ PrintRaw
    \/ SwitchMode
    \/ SetStatusNotify
    \/ SetPrintInfo
    \/ SetVariousMode
    \/ SetAdvancedMode
    \/ SetMargin
    \/ SetCompressionMode
    \/ RasterTransfer
    \/ PrintAndFeed
    \/ Poll

SpecSession == InitSession /\ [][NextSession]_vars

\* print_raw on its own, run to its end: the caller's thread executes the
\* function step by step and every transport call returns, so a step of a
\* running print_raw that can be taken is taken.
PrintStep ==
    \/ SwitchMode
    \/ SetStatusNotify
    \/ SetPrintInfo
    \/ SetVariousMode
    \/ SetAdvancedMode
    \/ SetMargin
    \/ SetCompressionMode
    \/ RasterTransfer
    \/ PrintAndFeed
    \/ Poll

NextPrint ==
    \/ PrintRaw
    \/ SwitchMode
    \/ SetStatusNotify
    \/ SetPrintInfo
    \/ SetVariousMode
    \/ SetAdvancedMode
    \/ SetMargin
    \/ SetCompressionMode
    \/ RasterTransfer
    \/ PrintAndFeed
    \/ Poll

FairPrint == InitSession /\ [][NextPrint]_vars /\ WF_vars(PrintStep)

\* A Session and a second new_with_context on the device it was opened on,
\* its steps interleaved with the transfers of the Session.
InitTwo ==
    /\ pc = "ready"
    /\ devices = <<>>
    /\ index = 0
    /\ matches = <<>>
    /\ device = <<1>>
    /\ config_desc = <<>>
    /\ cmd_ep = <<2>>
    /\ stat_ep = <<1>>
    /\ open_result = Ok
    /\ data = <<>>
    /\ info = "tze12"
    /\ line = 0
    /\ sent = <<>>
    /\ i = 0
    /\ polls = 0
    /\ lastPoll = NoPoll
    /\ swallowed = FALSE
    /\ print_result = Pending
    /\ lastWrite = Pending
    /\ failed_at = ""
    /\ io = NoIo
    /\ handle = "open"
    /\ claimed = TRUE
    /\ timeout = <<DEFAULT_TIMEOUT>>
    /\ steps = <<>>
    /\ other = [NoOther EXCEPT !.pc = "open_handle"]

NextTwo ==
    \/ Write
    \/ Read
    \/ Status
    \/ DropSession
    \/ SecondOpenHandle
    \/ SecondReset
    \/ SecondConfigDescriptor
    \/ SecondKernelDriverActive
    \/ SecondDetachKernelDriver
    \/ SecondClaimInterface
    \/ SecondInvalidate
    \/ SecondInitPrinter
    \/ SecondReturnSession

SpecTwo == InitTwo /\ [][NextTwo]_vars

\* ------------------------------------------------------------------ claims
PrintPcs ==
    {"switch_mode", "set_status_notify", "set_print_info", "set_various_mode",
     "set_advanced_mode", "set_margin", "set_compression_mode", "raster", "poll"}
\* print_raw is running, or has returned and no other call was made since.
InRun == pc \in PrintPcs \/ (pc = "ready" /\ print_result # Pending)
\* print_raw has returned.
Returned == pc = "ready" /\ print_result # Pending

ConfigCmds ==
    <<"switch_mode", "set_status_notify", "set_print_info", "set_various_mode",
      "set_advanced_mode", "set_margin", "set_compression_mode">>
ConfigArgs == <<"Raster", "true", info, "AUTO_CUT", "NO_CHAIN", "", "Tiff">>
IsConfigCmd(f) == \E k \in 1..Len(ConfigCmds) : f.cmd = ConfigCmds[k]
IsRaster(f) == f.cmd = "raster_transfer"
RasterFrames == SelectSeq(sent, IsRaster)
FeedAt == { k \in 1..Len(sent) : sent[k].cmd = "print_and_feed" }
\* Every command write up to and including print_and_feed succeeded.
WritesSucceeded == pc = "poll" \/ (Returned /\ polls > 0)

\* C1: the seven configuration frames are the first seven frames print_raw
\* transmits, in the order switch_mode(Raster), set_status_notify(true),
\* set_print_info(info), set_various_mode(AUTO_CUT), set_advanced_mode(NO_CHAIN),
\* set_margin, set_compression_mode(Tiff); none of them is transmitted again,
\* so every raster_transfer frame comes after all seven; a run whose command
\* writes all succeed has transmitted all seven.
C1_ConfigOrder ==
    InRun =>
        /\ \A k \in 1..Len(sent) :
             IF k <= 7
             THEN sent[k].cmd = ConfigCmds[k] /\ sent[k].arg = ConfigArgs[k]
             ELSE ~IsConfigCmd(sent[k])
        /\ WritesSucceeded => Len(sent) > 7
C1_Witness ==
    /\ Returned
    /\ print_result = Ok
    /\ Len(data) = 2
    /\ info = "tze24"

\* C2: the raster_transfer frames print_raw transmits are, in order, the
\* compressions of the input lines from the first on, without gap, repeat or
\* swap; a run whose command writes all succeed has transmitted one per line.
C2_RasterOrder ==
    InRun =>
        /\ Len(RasterFrames) <= Len(data)
        /\ \A k \in 1..Len(RasterFrames) : RasterFrames[k].payload = compress(data[k])
        /\ WritesSucceeded => Len(RasterFrames) = Len(data)
C2_Witness ==
    /\ Returned
    /\ print_result = Ok
    /\ Len(data) = 2
    /\ data[1] # data[2]
    /\ Len(RasterFrames) = 2

\* C3: print_and_feed is transmitted at most once; when it is, every input
\* line has been transferred before it, no status poll came before it and
\* only status requests follow it; no status poll happens without it.
C3_FeedOnce ==
    InRun =>
        /\ Cardinality(FeedAt) <= 1
        /\ \A k \in FeedAt :
             /\ Len(SelectSeq(SubSeq(sent, 1, k - 1), IsRaster)) = Len(data)
             /\ \A j \in 1..(k - 1) : sent[j].cmd # "status_req"
             /\ \A j \in (k + 1)..Len(sent) : sent[j].cmd = "status_req"
             /\ polls = Len(sent) - k
        /\ polls > 0 => FeedAt # {}
C3_Witness ==
    /\ pc = "poll"
    /\ polls = 2
    /\ Len(data) = 2
    /\ FeedAt = {10}

\* A poll outcome that ends the loop: a frame with an error bit, or a
\* completed frame.
Terminal(s) ==
    /\ s.status_type \notin {"NoPoll", "FailedPoll"}
    /\ (s.error1 # {} \/ s.error2 # {} \/ s.status_type = "Completed")

\* C4 as stated: when no poll yields a terminal state, print_raw has returned
\* Timeout once 11 polls are made, and makes no 12th.
C4_TimeoutAfter11 ==
    (InRun /\ polls >= 11 /\ ~Terminal(lastPoll)) =>
        (Returned /\ print_result = Timeout /\ polls = 11)
\* C4 as amended: when no poll yields a terminal state, print_raw keeps
\* polling through the 11th poll and returns Timeout after the 12th; it never
\* polls more than 12 times, and a Timeout of the poll phase comes after
\* exactly 12 polls.
C4_TimeoutAfter12 ==
    InRun =>
        /\ polls <= 12
        /\ (polls > 0 /\ polls < 12 /\ ~Terminal(lastPoll)) =>
               (pc = "poll" /\ print_result = Pending)
        /\ (polls = 12 /\ ~Terminal(lastPoll)) => (Returned /\ print_result = Timeout)
        /\ (polls > 0 /\ print_result = Timeout) => (polls = 12 /\ ~Terminal(lastPoll))
C4_Witness ==
    /\ Returned
    /\ print_result = Timeout
    /\ polls = 12
    /\ lastPoll.status_type = "PhaseChange"

\* C5: once a poll has read a frame with a non-empty error1 or error2,
\* whatever its status type, print_raw has returned PTouch with the two
\* error sets of that frame (so no poll follows it); PTouch is returned for
\* no other reason.
C5_ErrorFrame ==
    InRun =>
        /\ (lastPoll.error1 # {} \/ lastPoll.error2 # {}) =>
               /\ Returned
               /\ print_result = PTouchError(lastPoll.error1, lastPoll.error2)
        /\ print_result.tag = "PTouch" =>
               /\ (lastPoll.error1 # {} \/ lastPoll.error2 # {})
               /\ print_result.error1 = lastPoll.error1
               /\ print_result.error2 = lastPoll.error2
C5_Witness ==
    /\ Returned
    /\ lastPoll.status_type = "Completed"
    /\ lastPoll.error1 = {}
    /\ lastPoll.error2 # {}
    /\ print_result.tag = "PTouch"
    /\ polls > 1

\* C6: print_raw returns Ok only when the last frame it read is a completed
\* frame with both error sets empty; after a phase-change frame with empty
\* error sets the call is still polling, unless that was the 12th poll, where
\* the bound (not the frame) ends the call with Timeout.
C6_SuccessOnlyCompleted ==
    InRun =>
        /\ print_result = Ok =>
               /\ lastPoll.status_type = "Completed"
               /\ lastPoll.error1 = {}
               /\ lastPoll.error2 = {}
        /\ (lastPoll.status_type = "PhaseChange" /\ lastPoll.error1 = {} /\ lastPoll.error2 = {}) =>
               \/ pc = "poll" /\ print_result = Pending
               \/ Returned /\ print_result = Timeout /\ polls = 12
C6_Witness ==
    /\ pc = "poll"
    /\ polls = 3
    /\ lastPoll.status_type = "PhaseChange"
    /\ print_result = Pending

\* C7: after a failed status read the call is still polling (unless that was
\* the 12th poll); a run that swallowed a failed read can still return Ok;
\* once polling has begun print_raw returns nothing but Ok, PTouch and
\* Timeout, whatever the status request and the read returned.
C7_FailedReadSwallowed ==
    (InRun /\ polls > 0) =>
        /\ print_result.tag \in {"Pending", "Ok", "PTouch", "Timeout"}
        /\ lastPoll = FailedPoll =>
               \/ pc = "poll" /\ print_result = Pending
               \/ Returned /\ print_result = Timeout /\ polls = 12
        /\ (Returned /\ polls < 12) => print_result.tag \in {"Ok", "PTouch"}
C7_Witness ==
    /\ Returned
    /\ swallowed
    /\ lastWrite = Ok
    /\ print_result = Ok
    /\ polls > 1

\* The frames of a run without failure, up to print_and_feed.
RECURSIVE RasterOf(_)
RasterOf(d) ==
    IF d = <<>> THEN <<>> ELSE <<raster_transfer(compress(Head(d)))>> \o RasterOf(Tail(d))
Expected ==
    [k \in 1..7 |-> Frame(ConfigCmds[k], ConfigArgs[k], IF k = 6 THEN <<Margin>> ELSE <<>>)]
    \o RasterOf(data) \o <<print_and_feed>>

\* C8: when the write of a configuration command, a raster_transfer or
\* print_and_feed fails, print_raw has returned that write's error; the
\* failed frame is the last one handed to the transport, the frames before it
\* are those of the sequence without repeat, and no status poll was made.
C8_WriteFailureReturns ==
    (InRun /\ polls = 0 /\ lastWrite \in {Usb, Timeout}) =>
        /\ Returned
        /\ print_result = lastWrite
        /\ Len(sent) <= Len(Expected)
        /\ sent = SubSeq(Expected, 1, Len(sent))
        /\ lastPoll = NoPoll
C8_Witness ==
    /\ Returned
    /\ polls = 0
    /\ print_result = Timeout
    /\ Len(sent) = 9
    /\ sent[9].cmd = "raster_transfer"

\* The locals of new_with_context are in scope and the device list was read.
OpenPcs ==
    {"open_handle", "reset", "config_descriptor", "locate_endpoints", "kernel_driver",
     "detach", "claim", "invalidate", "init", "return"}
Enumerated ==
    \/ pc \in OpenPcs
    \/ pc = "aborted"
    \/ pc = "failed" /\ ~(failed_at = "idle" /\ open_result = Usb)
\* The matching devices before the selected one is taken out.
AllMatches == Matches(devices)

\* C9: with N matching devices and index i, open returns InvalidIndex when
\* N = 0 and when i >= N, as an error value; when i < N the device it goes on
\* with is the i-th match in enumeration order.
C9_IndexBounds ==
    Enumerated =>
        /\ pc # "aborted"
        /\ (Len(AllMatches) = 0 \/ index >= Len(AllMatches)) =>
               (pc = "failed" /\ open_result = InvalidIndex)
        /\ index < Len(AllMatches) =>
               (open_result # InvalidIndex /\ device = <<AllMatches[index + 1]>>)

\* The endpoint search has run on config_desc, which is still in scope.
Located ==
    \/ pc \in {"kernel_driver", "detach", "claim", "invalidate", "init", "return"}
    \/ pc = "failed" /\ failed_at \in {"locate_endpoints", "kernel_driver", "detach",
                                       "claim", "invalidate", "init"}
BulkEndpoints(dir) ==
    IF config_desc = <<>> THEN {}
    ELSE { k \in 1..Len(config_desc[1]) :
             config_desc[1][k].transfer_type = "Bulk" /\ config_desc[1][k].direction = dir }

\* C10: once the endpoint search has run, open has returned InvalidEndpoints
\* exactly when the first interface has no bulk IN or no bulk OUT endpoint;
\* with exactly one of each, stat_ep is the address of the bulk IN endpoint
\* and cmd_ep the address of the bulk OUT endpoint, and when every later step
\* succeeds open reaches the return of the Session with these values.
C10_EndpointDiscovery ==
    /\ Located =>
         /\ (BulkEndpoints("In") = {} \/ BulkEndpoints("Out") = {}) <=>
                (pc = "failed" /\ open_result = InvalidEndpoints)
         /\ (Cardinality(BulkEndpoints("In")) = 1 /\ Cardinality(BulkEndpoints("Out")) = 1) =>
                /\ \A k \in BulkEndpoints("In") : stat_ep = <<config_desc[1][k].address>>
                /\ \A k \in BulkEndpoints("Out") : cmd_ep = <<config_desc[1][k].address>>
    /\ pc = "ready" => (open_result = Ok /\ Len(stat_ep) = 1 /\ Len(cmd_ep) = 1 /\ stat_ep # cmd_ep)
C10_Witness ==
    /\ pc = "return"
    /\ Len(config_desc) = 2
    /\ BulkEndpoints("In") = {2}
    /\ BulkEndpoints("Out") = {1}
    /\ stat_ep = <<2>>
    /\ cmd_ep = <<1>>

\* C11: a call of write makes exactly one bulk OUT transfer; it returns Ok
\* exactly when the transport accepted as many bytes as were requested,
\* Timeout when it accepted another number, Usb when the transfer failed.
C11_WriteExact ==
    io.op = "write" =>
        /\ Len(io.outs) = 1
        /\ Len(io.ins) = 0
        /\ io.result = Ok <=> (io.outs[1].ok /\ io.outs[1].n = io.len)
        /\ (io.outs[1].ok /\ io.outs[1].n # io.len) => io.result = Timeout
        /\ ~io.outs[1].ok => io.result = Usb
C11_Witness ==
    /\ io.op = "write"
    /\ io.len = 2
    /\ io.outs = <<Transferred(1)>>
    /\ io.result = Timeout

\* C12: a call of read makes exactly one bulk IN transfer; it returns a frame
\* exactly when 32 bytes were received and Timeout on fewer; status returns a
\* Status only from a read of 32 bytes, and makes at most one bulk IN transfer.
C12_ReadExact ==
    /\ io.op = "read" =>
         /\ Len(io.ins) = 1
         /\ Len(io.outs) = 0
         /\ io.result = Ok <=> (io.ins[1].ok /\ io.ins[1].n = 32)
         /\ (io.ins[1].ok /\ io.ins[1].n < 32) => io.result = Timeout
         /\ io.status # NoPoll <=> io.result = Ok
    /\ io.op = "status" =>
         /\ Len(io.ins) <= 1
         /\ io.status # NoPoll =>
              /\ io.result = Ok
              /\ Len(io.ins) = 1
              /\ io.ins[1].ok
              /\ io.ins[1].n = 32
         /\ (Len(io.ins) = 1 /\ io.ins[1].ok /\ io.ins[1].n < 32) =>
              (io.result = Timeout /\ io.status = NoPoll)
C12_Witness ==
    /\ io.op = "status"
    /\ io.outs = <<Transferred(io.len)>>
    /\ io.ins = <<Transferred(31)>>
    /\ io.result = Timeout
    /\ io.status = NoPoll

\* The calls info made on the handle, by name.
InfoCalls(name) == { k \in 1..Len(io.reads) : io.reads[k].call = name }
StringCalls == { k \in 1..Len(io.reads) : \E j \in 1..3 : io.reads[k].call = StringReads[j] }
GotLanguages == io.op = "info" /\ io.reads[1].ok

\* C16 as stated: info fails with NoLanguages whenever the language list is
\* empty, reading no string; otherwise the three strings are all read, with
\* the first language of the list.
C16_NoLanguagesWhenever ==
    GotLanguages =>
        IF Len(io.langs) = 0
        THEN io.result = NoLanguages /\ StringCalls = {}
        ELSE /\ \A j \in 1..3 : InfoCalls(StringReads[j]) # {}
             /\ \A k \in StringCalls : io.reads[k].lang = io.langs[1]

\* C16, amended: info returns NoLanguages exactly when read_languages returned
\* an empty list and active_configuration succeeded; with an empty list no
\* string is read; with a non-empty list and a successful active_configuration
\* the strings are read in the order manufacturer, product, serial, each with
\* the first language of the list, up to and including the first read that
\* fails, and info returns Ok exactly when all three succeeded.
C16_NoLanguages ==
    io.op = "info" =>
        LET cfg == InfoCalls("active_configuration")
            cfgOk == \E k \in cfg : io.reads[k].ok
            strs == Len(io.reads) - 2
        IN /\ io.result = NoLanguages <=> (GotLanguages /\ Len(io.langs) = 0 /\ cfgOk)
           /\ (Len(io.langs) = 0 \/ ~cfgOk) => StringCalls = {}
           /\ (Len(io.langs) # 0 /\ cfgOk) =>
                /\ strs \in 1..3
                /\ \A j \in 1..strs :
                     /\ io.reads[2 + j].call = StringReads[j]
                     /\ io.reads[2 + j].lang = io.langs[1]
                     /\ j < strs => io.reads[2 + j].ok
                /\ strs < 3 => ~io.reads[2 + strs].ok
                /\ io.result = Ok <=> (strs = 3 /\ io.reads[5].ok)
           /\ io.result \in {Ok, Usb, NoLanguages}
C16_Witness ==
    /\ io.op = "info"
    /\ io.langs = <<2, 1>>
    /\ Len(io.reads) = 4
    /\ io.reads[4] = [call |-> "product", lang |-> 2, ok |-> FALSE]
    /\ io.result = Usb

\* The calls new_with_context made, by name.
StepCalls(name) == { k \in 1..Len(steps) : steps[k].call = name }
Made(call, out) == \E k \in 1..Len(steps) : steps[k] = Call(call, out)

\* C14: when new_with_context has returned an error, no handle is open and no
\* interface is claimed; if device.open() had succeeded the handle was closed.
C14_FailedOpenReleases ==
    /\ pc = "failed" =>
         /\ handle # "open"
         /\ ~claimed
         /\ Made("open", "ok") => handle = "closed"
    /\ claimed => handle = "open"
C14_Witness ==
    /\ pc = "failed"
    /\ failed_at = "init"
    /\ Made("claim_interface", "ok")
    /\ handle = "closed"
    /\ ~claimed

SessionPcs == PrintPcs \cup {"ready"}
OperationFailed == print_result \notin {Pending, Ok} \/ io.result \notin {Pending, Ok}
SessionStep ==
    pc \in SessionPcs =>
        /\ UNCHANGED <<handle, claimed, timeout, cmd_ep, stat_ep, device>>
        /\ handle = "open"
        /\ claimed
        /\ timeout = <<DEFAULT_TIMEOUT>>
        /\ cmd_ep # <<>>
        /\ stat_ep # <<>>
        /\ OperationFailed' => pc' = "ready"
\* C15: from the moment the Session exists, no step of write, read, status,
\* info or print_raw changes the handle, the claim, the endpoints or the
\* timeout, whatever the step returns; the handle is open, the interface
\* claimed, and a call that returns an error leaves the caller where the next
\* call can be made.
C15_SessionKept == [][SessionStep]_vars
C15_Witness ==
    /\ pc = "ready"
    /\ print_result = Timeout
    /\ polls = 12
    /\ handle = "open"
    /\ claimed
    /\ timeout = <<500>>

\* C17: in a run of print_raw no status is requested or read, and no device
\* error is reported, before print_and_feed has been sent; every status
\* request follows the print_and_feed frame.
C17_NoStatusBeforeFeed ==
    InRun =>
        /\ (FeedAt = {} \/ sent[Len(sent)].cmd = "print_and_feed") =>
              /\ polls = 0
              /\ lastPoll = NoPoll
              /\ print_result.tag # "PTouch"
        /\ \A k \in 1..Len(sent) :
              sent[k].cmd = "status_req" => (k > 1 /\ sent[k - 1].cmd \in {"print_and_feed", "status_req"})
        /\ print_result.tag = "PTouch" => (polls > 0 /\ FeedAt # {})
C17_Witness ==
    /\ Returned
    /\ print_result.tag = "PTouch"
    /\ polls = 1
    /\ Len(data) = 2
    /\ FeedAt = {10}

\* C18: the calls of new_with_context are made in the order open, reset,
\* config_descriptor, endpoint search, kernel_driver_active,
\* detach_kernel_driver, claim_interface, invalidate, init, none repeated and
\* none skipped but the detach, which is made exactly when a kernel driver was
\* reported active; a call is made only when the ones before it succeeded,
\* and Ok(s) is reached only with the claim and both handshake writes done.
StepOrder ==
    <<"open", "reset", "config_descriptor", "locate_endpoints", "kernel_driver_active",
      "detach_kernel_driver", "claim_interface", "invalidate", "init">>
Rank(call) == CHOOSE k \in 1..Len(StepOrder) : StepOrder[k] = call
NotDetach(st) == st.call # "detach_kernel_driver"
C18_OpenOrder ==
    LET must == SelectSeq(steps, NotDetach)
        order == SelectSeq(StepOrder, LAMBDA c : c # "detach_kernel_driver")
    IN /\ \A k \in 1..Len(steps) : \E r \in 1..Len(StepOrder) : StepOrder[r] = steps[k].call
       /\ \A k \in 1..(Len(steps) - 1) :
            /\ Rank(steps[k].call) < Rank(steps[k + 1].call)
            /\ steps[k].out # "err"
       /\ \A k \in 1..Len(must) : must[k].call = order[k]
       /\ \A k \in StepCalls("detach_kernel_driver") :
            k > 1 /\ steps[k - 1] = Call("kernel_driver_active", "true")
       /\ \A k \in StepCalls("claim_interface") :
            steps[k - 1] \in {Call("kernel_driver_active", "false"),
                              Call("detach_kernel_driver", "ok")}
       /\ pc \in {"invalidate", "init", "return"} => (claimed /\ handle = "open")
       /\ pc = "return" =>
            /\ Made("claim_interface", "ok")
            /\ Made("invalidate", "ok")
            /\ Made("init", "ok")
       /\ open_result = Ok => pc \in SessionPcs /\ claimed /\ handle = "open"
C18_Witness ==
    /\ pc = "return"
    /\ Len(steps) = 9
    /\ Made("detach_kernel_driver", "ok")

\* C20: a kernel driver is detached or an interface claimed only for a device
\* selected by an index below the number of matches and with both bulk
\* endpoints found; InvalidIndex is returned before any call on a device,
\* InvalidEndpoints before any detach or claim.
C20_NoClaimWithoutEndpoints ==
    /\ open_result = InvalidIndex => (steps = <<>> /\ handle = "none" /\ device = <<>>)
    /\ open_result = InvalidEndpoints =>
         /\ StepCalls("detach_kernel_driver") = {}
         /\ StepCalls("claim_interface") = {}
         /\ ~claimed
    /\ (StepCalls("detach_kernel_driver") # {} \/ StepCalls("claim_interface") # {} \/ claimed) =>
         /\ device # <<>>
         /\ cmd_ep # <<>>
         /\ stat_ep # <<>>
         /\ pc \notin SessionPcs => index < Len(AllMatches)
C20_Witness ==
    /\ pc = "failed"
    /\ open_result = InvalidEndpoints
    /\ config_desc # <<>>
    /\ cmd_ep # <<>>
    /\ stat_ep = <<>>
    /\ handle = "closed"

\* C13: while the Session holds the claim, a second new_with_context on the
\* same device does not get past claim_interface: it makes no bulk transfer,
\* returns no Session, and when it has returned it has returned an error; the
\* interface is never claimed by both.
OtherBulk == { k \in 1..Len(other.steps) : other.steps[k].call \in {"invalidate", "init"} }
C13_SecondOpenFails ==
    /\ ~(claimed /\ other.claimed)
    /\ claimed =>
         /\ OtherBulk = {}
         /\ other.pc \notin {"invalidate", "init", "return", "ready"}
         /\ other.result # Ok
         /\ Len(other.steps) > 0 /\ other.steps[Len(other.steps)].call = "claim_interface"
              => (other.pc = "failed" /\ other.result = Usb /\ other.handle = "closed")
    /\ other.pc = "ready" => (other.claimed /\ ~claimed /\ pc = "dropped")
C13_Witness ==
    /\ claimed
    /\ io.op = "write"
    /\ io.result = Ok
    /\ other.pc = "failed"
    /\ other.steps[Len(other.steps)] = Call("claim_interface", "err")
    /\ other.result = Usb

\* The three ways print_raw ends.
Completed == print_result = Ok
Failed ==
    \/ print_result.tag = "PTouch"
    \/ polls = 0 /\ print_result \in {Usb, Timeout} /\ lastWrite = print_result
TimedOut == print_result = Timeout /\ polls > 0
ExactlyOne(a, b, c) == (a \/ b \/ c) /\ ~(a /\ b) /\ ~(a /\ c) /\ ~(b /\ c)

\* C19: every run of print_raw returns, whatever the data and whatever the
\* device answers, and when it has returned it has completed, failed or timed
\* out, and only one of the three; no run makes more than 12 polls.
C19_PrintReturns ==
    /\ (pc \in PrintPcs) ~> Returned
    /\ [](Returned => ExactlyOne(Completed, Failed, TimedOut))
    /\ [](polls <= 12)
C19_Witness ==
    /\ Returned
    /\ Completed
    /\ swallowed
    /\ polls = 12
    /\ Len(data) = 2

====
